---- MODULE Spec2Model ----
(***************************************************************************)
(* Model of three parts of orgize:                                         *)
(*   - Macros::parse   (src/src/elements/macros.rs)                        *)
(*   - Clock::parse    (src/src/elements/clock.rs)                         *)
(*   - Org::iter, Org::html_with_handler, Org::org_with_handler            *)
(*                     (src/src/org.rs)                                    *)
(* A string is a sequence of one-character strings, one element per byte.  *)
(* Indices of the Rust code are 0-based; the helpers below take and return *)
(* 0-based indices and translate to the 1-based sequences of TLA+.         *)
(***************************************************************************)
EXTENDS Integers, Sequences, FiniteSets, TLC

VARIABLES
    input,      \* the &str handed to the parser under test
    target,     \* "macros" | "clock" | "org": the part of the crate exercised
    build,      \* "debug" | "release": overflow checks on or off
    pc,         \* position of the parser harness: "start" | "parsed" | "reparsed"
    result,     \* what the parser returned for input
    reparsed,   \* what the parser returned for input[..n]
    arena,      \* Org.arena: node id -> indextree node
    root,       \* Org.root
    driver,     \* "idle" | "iter" | "html" | "org": who holds the iterator
    cursor,     \* Traverse.next of the live iterator: a NodeEdge or None
    calls,      \* the events delivered since the iterator was created
    ret,        \* return value of the last render, or Pending
    failed      \* a render on this Org has returned an error before

vars == <<target, input, build, pc, result, reparsed,
          arena, root, driver, cursor, calls, ret, failed>>

parserVars == <<target, input, build, pc, result, reparsed>>
orgVars == <<arena, root, driver, cursor, calls, ret, failed>>

----------------------------------------------------------------------------
(* Bounds *)

MaxName == 2     \* longest run of name characters in a generated macro input
MaxTail == 5     \* most tokens after the name in a generated macro input
MaxDur == 4      \* most characters of duration text in a generated clock line
MaxGap == 2      \* most spaces between "=>" and the duration text
MaxNodes == 4    \* most nodes in the arena

----------------------------------------------------------------------------
(* Option and string helpers shared by the parsers *)

None == [some |-> FALSE]
Some(v) == [some |-> TRUE, val |-> v]

\* s[a..b] and s[a..] with 0-based, end-exclusive bounds
Slice(s, a, b) == SubSeq(s, a + 1, b)
SliceFrom(s, a) == SubSeq(s, a + 1, Len(s))

\* str::starts_with / the test made by nom's tag
StartsWith(s, p) == Len(s) >= Len(p) /\ SubSeq(s, 1, Len(p)) = p

RECURSIVE Flatten(_)
Flatten(ss) == IF ss = <<>> THEN <<>> ELSE Head(ss) \o Flatten(Tail(ss))

\* all sequences over S of length at most n
SeqsUpTo(S, n) == UNION {[1..k -> S] : k \in 0..n}

----------------------------------------------------------------------------
(* Macros::parse, macros.rs *)

Alpha == {"a"}
Digit == {"0", "1"}

\* c.is_ascii_alphanumeric() || c == '-' || c == '_'
IsNameChar(c) == c \in Alpha \/ c \in Digit \/ c = "-" \/ c = "_"

\* s.starts_with(|c: char| c.is_ascii_alphabetic())
NameVerifyAnyFirst(s) == Len(s) > 0
NameVerify(s) == Len(s) > 0 /\ s[1] \in Alpha

\* nom parsers return either an error or (remaining input, output)
Err == [ok |-> FALSE]
Ok(rest, out) == [ok |-> TRUE, rest |-> rest, out |-> out]

\* tag(t)
Tag(t, s) == IF StartsWith(s, t) THEN Ok(SliceFrom(s, Len(t)), t) ELSE Err

\* take_while1(IsNameChar): the longest prefix of name characters, at least one
NameRunLen(s) ==
    IF \E i \in 1..Len(s) : ~IsNameChar(s[i])
    THEN (CHOOSE i \in 1..Len(s) :
            ~IsNameChar(s[i]) /\ \A j \in 1..(i - 1) : IsNameChar(s[j])) - 1
    ELSE Len(s)
TakeWhile1Name(s) ==
    LET n == NameRunLen(s) IN
    IF n = 0 THEN Err ELSE Ok(SliceFrom(s, n), Slice(s, 0, n))

\* verify(take_while1(..), NameVerify)
VerifiedName(s) ==
    LET r == TakeWhile1Name(s) IN
    IF r.ok /\ NameVerify(r.out) THEN r ELSE Err

\* the 0-based indices at which pat occurs in s
Occurrences(pat, s) ==
    {i \in 0..(Len(s) - Len(pat)) : Slice(s, i, i + Len(pat)) = pat}

Max(S) == CHOOSE x \in S : \A y \in S : y <= x
Min(S) == CHOOSE x \in S : \A y \in S : x <= y

\* take_until(pat): everything before the first occurrence of pat
TakeUntilLast(pat, s) ==
    IF Occurrences(pat, s) = {} THEN Err
    ELSE LET i == Max(Occurrences(pat, s)) IN Ok(SliceFrom(s, i), Slice(s, 0, i))
TakeUntil(pat, s) ==
    IF Occurrences(pat, s) = {} THEN Err
    ELSE LET i == Min(Occurrences(pat, s)) IN Ok(SliceFrom(s, i), Slice(s, 0, i))

\* take(1usize)
Take1(s) == IF Len(s) >= 1 THEN Ok(SliceFrom(s, 1), Slice(s, 0, 1)) ELSE Err

ArgTerminator == <<")", "}", "}", "}">>
MacroOpen == <<"{", "{", "{">>
MacroClose == <<"}", "}", "}">>

\* delimited(tag("("), take_until(")}}}"), take(1usize))
DelimitedArgs(s) ==
    LET a == Tag(<<"(">>, s) IN
    IF ~a.ok THEN Err ELSE
    LET b == TakeUntil(ArgTerminator, a.rest) IN
    IF ~b.ok THEN Err ELSE
    LET c == Take1(b.rest) IN
    IF ~c.ok THEN Err ELSE Ok(c.rest, b.out)

\* opt(delimited(..)): an error of the inner parser becomes None, input unmoved
OptArgs(s) ==
    LET d == DelimitedArgs(s) IN
    IF d.ok THEN Ok(d.rest, Some(d.out)) ELSE Ok(s, None)

\* Macros::parse: Ok((rest, Element::Macros { name, arguments })) or Err
MacrosParse(s) ==
    LET t1 == Tag(MacroOpen, s) IN
    IF ~t1.ok THEN Err ELSE
    LET nm == VerifiedName(t1.rest) IN
    IF ~nm.ok THEN Err ELSE
    LET ar == OptArgs(nm.rest) IN
    LET t2 == Tag(MacroClose, ar.rest) IN
    IF ~t2.ok THEN Err ELSE
    [ok |-> TRUE, rest |-> t2.rest,
     out |-> [name |-> nm.out, arguments |-> ar.out]]

\* inputs: an opening, a run of name-like characters, tokens, an ending
MacroHeads == {MacroOpen, <<"{", "{">>}
MacroNameChars == {"a", "0", "_", "-"}
MacroTailTokens == {<<"(">>, <<")">>, MacroClose}
MacroEnds == {<<>>, <<"}", "}">>}
MacroInput(h, n, t, e) == h \o n \o Flatten(t) \o e

NoResult == [ok |-> FALSE, pending |-> TRUE]

----------------------------------------------------------------------------
(* Clock::parse, clock.rs *)

\* char::is_whitespace / u8::is_ascii_whitespace on the characters used here
IsWhitespace(c) == c \in {" ", "\n", "\t"}

RECURSIVE TrimStart(_)
TrimStart(s) ==
    IF s # <<>> /\ IsWhitespace(Head(s)) THEN TrimStart(Tail(s)) ELSE s

RECURSIVE TrimEnd(_)
TrimEnd(s) ==
    IF s # <<>> /\ IsWhitespace(s[Len(s)])
    THEN TrimEnd(SubSeq(s, 1, Len(s) - 1)) ELSE s

\* str::trim: both ends
Trim(s) == TrimStart(TrimEnd(s))

\* memchr(c, s): 0-based index of the first c
Memchr(c, s) ==
    IF \E i \in 1..Len(s) : s[i] = c
    THEN Some(Min({i \in 1..Len(s) : s[i] = c}) - 1)
    ELSE None

\* usize arithmetic. TLC's integers are 32 bits wide, so the 64-bit usize
\* is represented with a modulus far above every length of the model.
UsizeModulus == 2^30
WrappingSub(a, b) == (a - b + UsizeModulus) % UsizeModulus

\* timestamp::parse_inactive. A date is one unit ("D" or "E") and a time is
\* the unit "T": "[D]", "[D T]", and the range form "[D T]--[E T]".
DateUnits == {"D", "E"}
ParseDatetime(s) ==
    IF Len(s) >= 3 /\ s[1] = "[" /\ s[2] \in DateUnits /\ s[3] = "]"
    THEN Some([dt |-> [date |-> s[2], time |-> None], off |-> 3])
    ELSE IF Len(s) >= 5 /\ s[1] = "[" /\ s[2] \in DateUnits /\ s[3] = " "
            /\ s[4] = "T" /\ s[5] = "]"
    THEN Some([dt |-> [date |-> s[2], time |-> Some(s[4])], off |-> 5])
    ELSE None

ParseInactive(s) ==
    LET a == ParseDatetime(s) IN
    IF ~a.some THEN None ELSE
    LET r == SliceFrom(s, a.val.off)
        b == IF StartsWith(r, <<"-", "-">>) THEN ParseDatetime(SliceFrom(r, 2))
             ELSE None
    IN IF b.some
       THEN Some([ts |-> [kind |-> "InactiveRange", start |-> a.val.dt,
                          end |-> b.val.dt, repeater |-> None, delay |-> None],
                  off |-> a.val.off + 2 + b.val.off])
       ELSE Some([ts |-> [kind |-> "Inactive", start |-> a.val.dt,
                          repeater |-> None, delay |-> None],
                  off |-> a.val.off])

\* what a call of Clock::parse can do
ClockNone == [kind |-> "None"]
ClockPanic == [kind |-> "Panic"]
ClockSome(c, off) == [kind |-> "Some", clock |-> c, off |-> off]

ClockToken == <<"C", "L", "O", "C", "K", ":">>
Arrow == <<"=", ">">>

\* lines 23-25: the first line, trimmed, and the length it accounts for
LineSplitNoNewline(text) ==
    LET nl == Memchr("\n", text) IN
    IF nl.some THEN [text |-> Trim(Slice(text, 0, nl.val)), off |-> nl.val]
    ELSE [text |-> Trim(text), off |-> Len(text)]
LineSplit(text) ==
    LET nl == Memchr("\n", text) IN
    IF nl.some THEN [text |-> Trim(Slice(text, 0, nl.val)), off |-> nl.val + 1]
    ELSE [text |-> Trim(text), off |-> Len(text)]

\* lines 27-29: the text after "CLOCK:" and the spaces that follow it
ClockTailAnyPrefix(text) ==
    LET sp == Memchr(" ", text) IN
    IF sp.some THEN Some(TrimStart(SliceFrom(text, sp.val))) ELSE None
ClockTail(text) ==
    LET sp == Memchr(" ", text) IN
    IF sp.some /\ Slice(text, 0, sp.val) = ClockToken
    THEN Some(TrimStart(SliceFrom(text, sp.val)))
    ELSE None

AllDigits(s) == \A i \in 1..Len(s) : s[i] \in Digit

\* lines 49-65: the checks on the duration text, in evaluation order
ClosedClock(ts, duration, off, bld) ==
    LET colon == Memchr(":", duration) IN
    IF ~colon.some THEN ClockNone
    ELSE IF ~AllDigits(Slice(duration, 0, colon.val)) THEN ClockNone
    ELSE IF Len(duration) < 3 /\ bld = "debug" THEN ClockPanic
    ELSE IF colon.val # WrappingSub(Len(duration), 3) THEN ClockNone
    ELSE IF colon.val + 2 >= Len(duration) THEN ClockPanic
    ELSE IF duration[colon.val + 2] \in Digit /\ duration[colon.val + 3] \in Digit
    THEN ClockSome([kind |-> "Closed", start |-> ts.start, end |-> ts.end,
                    repeater |-> ts.repeater, delay |-> ts.delay,
                    duration |-> duration], off)
    ELSE ClockNone

\* line 48: &tail[3..].trim()
DurationText(tail) ==
    IF Len(tail) < 3 THEN ClockPanic
    ELSE [kind |-> "Text", text |-> Trim(SliceFrom(tail, 3))]

\* Clock::parse
ClockParse(text0, bld) ==
    LET ls == LineSplit(text0)
        t == ClockTail(ls.text)
    IN
    IF ~t.some THEN ClockNone
    ELSE IF ~StartsWith(t.val, <<"[">>) THEN ClockNone
    ELSE LET p == ParseInactive(t.val) IN
    IF ~p.some THEN ClockNone
    ELSE LET ts == p.val.ts
             tail == TrimStart(SliceFrom(t.val, p.val.off))
    IN
    IF ts.kind = "InactiveRange"
    THEN IF StartsWith(tail, Arrow)
         THEN LET d == DurationText(tail) IN
              IF d.kind = "Panic" THEN ClockPanic
              ELSE ClosedClock(ts, d.text, ls.off, bld)
         ELSE ClockNone
    ELSE IF \A i \in 1..Len(tail) : IsWhitespace(tail[i])
         THEN ClockSome([kind |-> "Running", start |-> ts.start,
                         repeater |-> ts.repeater, delay |-> ts.delay], ls.off)
         ELSE ClockNone

\* inputs: prefix, timestamp part, "=>" part, duration text, end of line
Stamp1 == <<"[", "D", " ", "T", "]">>
Stamp2 == <<"[", "E", " ", "T", "]">>
ClockHeads == {ClockToken \o <<" ">>, ClockToken, <<" ">> \o ClockToken \o <<" ">>,
               <<"x">> \o ClockToken \o <<" ">>, ClockToken \o <<"x", " ">>}
ClockBodies == {Stamp1, Stamp1 \o <<"-", "-">> \o Stamp2, <<"x">> \o Stamp1,
                <<"[", "x", "]">>}
ClockArrows == {<<>>, Arrow, <<" ">> \o Arrow}
ClockDurChars == {"1", ":", "x"}
ClockEnds == {<<>>, <<"\n">>, <<" ", "\n", "Z">>}
ClockInput(h, b, a, g, d, e) == h \o b \o a \o [i \in 1..g |-> " "] \o d \o e

----------------------------------------------------------------------------
(* Org, org.rs *)

\* indextree::Node: the links of one arena slot and its payload
NewNodeRec(data) ==
    [parent |-> None, first_child |-> None, last_child |-> None,
     previous_sibling |-> None, next_sibling |-> None, data |-> data]

\* Arena::new_node: the arena with one more, detached, node
ArenaNewNode(a, data) == Append(a, NewNodeRec(data))

\* NodeId::append: the detached node c becomes the last child of p
ArenaAppend(a, p, c) ==
    LET last == a[p].last_child IN
    [n \in DOMAIN a |->
        IF n = c THEN [a[n] EXCEPT !.parent = Some(p), !.previous_sibling = last]
        ELSE IF n = p
        THEN [a[n] EXCEPT !.last_child = Some(c),
                          !.first_child = IF last.some THEN @ ELSE Some(c)]
        ELSE IF last.some /\ n = last.val THEN [a[n] EXCEPT !.next_sibling = Some(c)]
        ELSE a[n]]

NodeEdge(kind, node) == [kind |-> kind, node |-> node]

\* Traverse::next: the edge that follows item in the traversal from rt
TraverseNext(a, rt, item) ==
    IF item.kind = "Start"
    THEN IF a[item.node].first_child.some
         THEN Some(NodeEdge("Start", a[item.node].first_child.val))
         ELSE Some(NodeEdge("End", item.node))
    ELSE IF item.node = rt THEN None
    ELSE IF a[item.node].next_sibling.some
         THEN Some(NodeEdge("Start", a[item.node].next_sibling.val))
    ELSE IF a[item.node].parent.some
         THEN Some(NodeEdge("End", a[item.node].parent.val))
    ELSE None

\* Org::iter: a fresh traversal, positioned on the Start edge of the root
OrgIterResumed == cursor
OrgIter == Some(NodeEdge("Start", root))

\* the closure of Org::iter: NodeEdge to Event, the element by reference
EdgeToEventAllStart(edge) == [kind |-> "Start", elem |-> edge.node]
EdgeToEvent(edge) ==
    IF edge.kind = "Start" THEN [kind |-> "Start", elem |-> edge.node]
    ELSE [kind |-> "End", elem |-> edge.node]

\* the match of the render loops: the handler method an event is given to
HandlerMethod(event) == IF event.kind = "Start" THEN "start" ELSE "end"

\* the ? of the render loops: does the outcome end the function
PropagatesNever(outcome) == FALSE
Propagates(outcome) == outcome # "ok"

Handlers == {"html", "org"}
HandlerErrors == {"e1", "e2"}
Pending == [kind |-> "Pending"]
IterDone == [kind |-> "IterDone"]
RetOk == [kind |-> "Ok"]
RetErr(e) == [kind |-> "Err", error |-> e]

----------------------------------------------------------------------------
(* The state machine *)

OrgIdle ==
    /\ arena = <<>> /\ root = 0 /\ driver = "idle" /\ cursor = None
    /\ calls = <<>> /\ ret = Pending /\ failed = FALSE

ParserIdle ==
    /\ input = <<>> /\ build = "release" /\ pc = "start"
    /\ result = NoResult /\ reparsed = NoResult

InitMacros ==
    /\ target = "macros"
    /\ \E h \in MacroHeads, n \in SeqsUpTo(MacroNameChars, MaxName),
          t \in SeqsUpTo(MacroTailTokens, MaxTail), e \in MacroEnds :
            input = MacroInput(h, n, t, e)
    /\ build = "release"
    /\ pc = "start" /\ result = NoResult /\ reparsed = NoResult
    /\ OrgIdle

InitClock ==
    /\ target = "clock"
    /\ \E h \in ClockHeads, b \in ClockBodies, a \in ClockArrows,
          g \in 0..MaxGap, d \in SeqsUpTo(ClockDurChars, MaxDur),
          e \in ClockEnds :
            input = ClockInput(h, b, a, g, d, e)
    /\ build \in {"debug", "release"}
    /\ pc = "start" /\ result = NoResult /\ reparsed = NoResult
    /\ OrgIdle

\* Org::new
InitOrg ==
    /\ target = "org"
    /\ ParserIdle
    /\ arena = ArenaNewNode(<<>>, "Document")
    /\ root = 1
    /\ driver = "idle" /\ cursor = None /\ calls = <<>> /\ ret = Pending
    /\ failed = FALSE

\* the length a successful Macros::parse consumed: input minus remainder
MacrosConsumed(s, r) == Len(s) - Len(r.rest)

MacrosParseCall ==
    /\ target = "macros" /\ pc = "start"
    /\ result' = MacrosParse(input)
    /\ pc' = "parsed"
    /\ UNCHANGED <<target, input, build, reparsed>>
    /\ UNCHANGED orgVars

\* the consumed prefix alone, handed to Macros::parse again
MacrosReparse ==
    /\ target = "macros" /\ pc = "parsed" /\ result.ok
    /\ reparsed' = MacrosParse(Slice(input, 0, MacrosConsumed(input, result)))
    /\ pc' = "reparsed"
    /\ UNCHANGED <<target, input, build, result>>
    /\ UNCHANGED orgVars

ClockParseCall ==
    /\ target = "clock" /\ pc = "start"
    /\ result' = ClockParse(input, build)
    /\ pc' = "parsed"
    /\ UNCHANGED <<target, input, build, reparsed>>
    /\ UNCHANGED orgVars

\* the consumed prefix alone, handed to Clock::parse again
ClockReparse ==
    /\ target = "clock" /\ pc = "parsed" /\ result.kind = "Some"
    /\ reparsed' = ClockParse(Slice(input, 0, result.off), build)
    /\ pc' = "reparsed"
    /\ UNCHANGED <<target, input, build, result>>
    /\ UNCHANGED orgVars

\* a node is created and appended under p, as the container parser does
AppendChild(p) ==
    /\ target = "org" /\ driver = "idle" /\ Len(arena) < MaxNodes
    /\ arena' = ArenaAppend(ArenaNewNode(arena, "Element"), p, Len(arena) + 1)
    /\ calls' = <<>> /\ ret' = Pending
    /\ UNCHANGED <<root, driver, cursor, failed>>
    /\ UNCHANGED parserVars

\* a node is created through arena_mut and left detached
NewDetached ==
    /\ target = "org" /\ driver = "idle" /\ Len(arena) < MaxNodes
    /\ arena' = ArenaNewNode(arena, "Element")
    /\ calls' = <<>> /\ ret' = Pending
    /\ UNCHANGED <<root, driver, cursor, failed>>
    /\ UNCHANGED parserVars

\* a caller takes Org::iter
IterCall ==
    /\ target = "org" /\ driver = "idle"
    /\ driver' = "iter"
    /\ cursor' = OrgIter
    /\ calls' = <<>> /\ ret' = Pending
    /\ UNCHANGED <<arena, root, failed>>
    /\ UNCHANGED parserVars

\* next() on the iterator yields an event
IterNext ==
    /\ target = "org" /\ driver = "iter" /\ cursor.some
    /\ calls' = Append(calls, EdgeToEvent(cursor.val))
    /\ cursor' = TraverseNext(arena, root, cursor.val)
    /\ UNCHANGED <<arena, root, driver, ret, failed>>
    /\ UNCHANGED parserVars

\* next() on the iterator yields None
IterEnd ==
    /\ target = "org" /\ driver = "iter" /\ ~cursor.some
    /\ driver' = "idle" /\ ret' = IterDone
    /\ UNCHANGED <<arena, root, cursor, calls, failed>>
    /\ UNCHANGED parserVars

\* the caller drops the iterator before its end
IterDrop ==
    /\ target = "org" /\ driver = "iter" /\ cursor.some
    /\ driver' = "idle" /\ cursor' = None
    /\ UNCHANGED <<arena, root, calls, ret, failed>>
    /\ UNCHANGED parserVars

\* html_with_handler / org_with_handler is entered: for event in self.iter()
RenderCall(h) ==
    /\ target = "org" /\ driver = "idle"
    /\ driver' = h
    /\ cursor' = OrgIter
    /\ calls' = <<>> /\ ret' = Pending
    /\ UNCHANGED <<arena, root, failed>>
    /\ UNCHANGED parserVars

\* one turn of the loop: the event goes to handler.start or handler.end,
\* which answers with outcome
HandlerCall(outcome) ==
    /\ target = "org" /\ driver \in Handlers /\ cursor.some
    /\ LET event == EdgeToEvent(cursor.val) IN
       calls' = Append(calls, [method |-> HandlerMethod(event),
                               elem |-> event.elem, outcome |-> outcome])
    /\ IF Propagates(outcome)
       THEN /\ ret' = RetErr(outcome)
            /\ driver' = "idle" /\ cursor' = None /\ failed' = TRUE
       ELSE /\ cursor' = TraverseNext(arena, root, cursor.val)
            /\ UNCHANGED <<ret, driver, failed>>
    /\ UNCHANGED <<arena, root>>
    /\ UNCHANGED parserVars

\* the loop ends: Ok(())
RenderReturn ==
    /\ target = "org" /\ driver \in Handlers /\ ~cursor.some
    /\ ret' = RetOk /\ driver' = "idle"
    /\ UNCHANGED <<arena, root, cursor, calls, failed>>
    /\ UNCHANGED parserVars

NextMacros == MacrosParseCall \/ MacrosReparse
NextClock == ClockParseCall \/ ClockReparse
NextOrg ==
    \/ \E p \in 1..Len(arena) : AppendChild(p)
    \/ NewDetached
    \/ IterCall \/ IterNext \/ IterEnd \/ IterDrop
    \/ \E h \in Handlers : RenderCall(h)
    \/ \E o \in {"ok"} \cup HandlerErrors : HandlerCall(o)
    \/ RenderReturn

SpecMacros == InitMacros /\ [][NextMacros]_vars
SpecClock == InitClock /\ [][NextClock]_vars
SpecParsers == (InitMacros \/ InitClock) /\ [][NextMacros \/ NextClock]_vars
SpecOrg == InitOrg /\ [][NextOrg]_vars

Init == InitMacros \/ InitClock \/ InitOrg
Next == NextMacros \/ NextClock \/ NextOrg
Spec == Init /\ [][Next]_vars

----------------------------------------------------------------------------
(* Macros::parse: properties *)

MacrosDone == target = "macros" /\ pc # "start"

\* the run of name characters that follows the opening braces of s
NameRun(s) == Slice(s, 3, 3 + NameRunLen(SliceFrom(s, 3)))
\* the text that follows that run
AfterName(s) == SliceFrom(s, 3 + Len(NameRun(s)))
\* the text that follows the "(" that follows the name
AfterParen(s) == SliceFrom(AfterName(s), 1)

ArgGroup(arguments) ==
    IF arguments.some THEN <<"(">> \o arguments.val \o <<")">> ELSE <<>>

\* C8: a successful parse has the shape "{{{" name [ "(" args ")" ] "}}}"
\* with a name matching [A-Za-z][A-Za-z0-9_-]*, and the parse fails when the
\* name run is empty or does not start with a letter, when no "}}}" closes
\* the macro, when a "(" has no ")}}}" after it and when a ")" follows the
\* name without a "(".
C8_MacroGrammar ==
    MacrosDone =>
        /\ result.ok =>
            /\ result.out.name # <<>>
            /\ result.out.name[1] \in Alpha
            /\ \A i \in 1..Len(result.out.name) : IsNameChar(result.out.name[i])
            /\ input = MacroOpen \o result.out.name
                         \o ArgGroup(result.out.arguments)
                         \o MacroClose \o result.rest
        /\ ~StartsWith(input, MacroOpen) => ~result.ok
        /\ StartsWith(input, MacroOpen) =>
            /\ NameRun(input) = <<>> => ~result.ok
            /\ (NameRun(input) # <<>> /\ NameRun(input)[1] \notin Alpha)
                    => ~result.ok
            /\ Occurrences(MacroClose, AfterName(input)) = {} => ~result.ok
            /\ (StartsWith(AfterName(input), <<"(">>)
                  /\ Occurrences(ArgTerminator, AfterParen(input)) = {})
                    => ~result.ok
            /\ StartsWith(AfterName(input), <<")">>) => ~result.ok

\* a macro with an argument group was accepted
C8_Witness ==
    /\ MacrosDone /\ result.ok /\ result.out.arguments.some
    /\ Len(result.out.name) = MaxName

----------------------------------------------------------------------------
(* Clock::parse: properties *)

ClockDone == target = "clock" /\ pc # "start"
IsClosed == ClockDone /\ result.kind = "Some" /\ result.clock.kind = "Closed"

\* the first line of s, without its newline
FirstLine(s) ==
    IF Memchr("\n", s).some THEN Slice(s, 0, Memchr("\n", s).val) ELSE s

\* the text of line that follows its first "=>"
AfterArrow(line) == SliceFrom(line, Min(Occurrences(Arrow, line)) + 2)

\* C2: the duration of a Closed clock is the text of the first line after
\* "=>", trimmed; nothing but whitespace is dropped.
C2_DurationIsTextAfterArrow ==
    IsClosed => result.clock.duration = Trim(AfterArrow(FirstLine(input)))

\* C3: the duration of a Closed clock is one or more digits, a colon and
\* exactly two digits.
C3_DurationShape ==
    IsClosed =>
        LET d == result.clock.duration IN
        /\ Len(d) >= 4
        /\ AllDigits(Slice(d, 0, Len(d) - 3))
        /\ d[Len(d) - 2] = ":"
        /\ d[Len(d) - 1] \in Digit /\ d[Len(d)] \in Digit

\* C4: Clock::parse returns a match or a non-match; it never aborts.
C4_ClockParseTotal == ClockDone => result.kind \in {"Some", "None"}

ClockPrefix == ClockToken \o <<" ">>

\* C10 as stated: a first line that does not begin with "CLOCK:" and a
\* space, leading whitespace included, is a non-match.
C10_RejectsUnlessLineBeginsWithClock ==
    (ClockDone /\ ~StartsWith(FirstLine(input), ClockPrefix))
        => result = ClockNone

\* C10 amended: a first line that, once its leading and trailing whitespace
\* is trimmed, does not begin with "CLOCK:" and a space is a non-match.
C10_RejectsUnlessTrimmedLineBeginsWithClock ==
    (ClockDone /\ ~StartsWith(Trim(FirstLine(input)), ClockPrefix))
        => result = ClockNone

\* a line that is a valid clock but for a character before "CLOCK:"
C10_Witness ==
    /\ ClockDone /\ result = ClockNone
    /\ input = <<"x">> \o ClockPrefix \o Stamp1

----------------------------------------------------------------------------
(* Both parsers: properties *)

\* C9: after a successful parse of s that consumed n, the parse of s[..n]
\* yields the same element and consumes n. For Clock, n is the index past
\* the first newline, or the length of s; for Macros, n is the index past
\* the closing "}}}" and the remainder is s[n..].
C9_ConsumedLengthExact ==
    /\ (target = "clock" /\ pc # "start" /\ result.kind = "Some") =>
            result.off = IF Memchr("\n", input).some
                         THEN Memchr("\n", input).val + 1 ELSE Len(input)
    /\ (target = "clock" /\ pc = "reparsed") =>
            /\ reparsed.kind = "Some"
            /\ reparsed.clock = result.clock
            /\ reparsed.off = result.off
    /\ (target = "macros" /\ pc # "start" /\ result.ok) =>
            LET n == MacrosConsumed(input, result) IN
            /\ n >= 3 /\ Slice(input, n - 3, n) = MacroClose
            /\ result.rest = SliceFrom(input, n)
    /\ (target = "macros" /\ pc = "reparsed") =>
            /\ reparsed.ok
            /\ reparsed.out = result.out
            /\ reparsed.rest = <<>>

\* a closed clock line followed by more text was parsed, then parsed alone
C9_Witness ==
    /\ target = "clock" /\ pc = "reparsed"
    /\ result.clock.kind = "Closed"
    /\ result.off < Len(input)

----------------------------------------------------------------------------
(* Org::iter and the render loops: properties *)

\* the children of n in document order: the order they were appended in
ChildSet(n) == {c \in DOMAIN arena : arena[c].parent = Some(n)}

RECURSIVE Ascending(_)
Ascending(S) ==
    IF S = {} THEN <<>> ELSE <<Min(S)>> \o Ascending(S \ {Min(S)})

\* the depth-first walk below n, written down from its definition:
\* Start n, the walks of the children in order, End n
RECURSIVE Walk(_)
RECURSIVE WalkAll(_)
Walk(n) == <<NodeEdge("Start", n)>> \o WalkAll(Ascending(ChildSet(n)))
             \o <<NodeEdge("End", n)>>
WalkAll(ns) == IF ns = <<>> THEN <<>> ELSE Walk(Head(ns)) \o WalkAll(Tail(ns))

RECURSIVE Reachable(_)
Reachable(n) ==
    n = root \/ (arena[n].parent.some /\ Reachable(arena[n].parent.val))

Positions(ev, k, n) == {i \in DOMAIN ev : ev[i] = [kind |-> k, elem |-> n]}
Pos(ev, k, n) == Min(Positions(ev, k, n))

\* Start pushes, End pops its own element: is ev well nested from stack st
RECURSIVE Nested(_, _)
Nested(ev, st) ==
    IF ev = <<>> THEN st = <<>>
    ELSE IF Head(ev).kind = "Start"
         THEN Nested(Tail(ev), <<Head(ev).elem>> \o st)
         ELSE st # <<>> /\ Head(st) = Head(ev).elem /\ Nested(Tail(ev), Tail(st))

IterFinished == target = "org" /\ ret = IterDone

\* C5: the events of a finished Org::iter are a depth-first walk: one Start
\* and one End for each node reachable from the root and none for other
\* nodes, a node's events around those of its children, the children in
\* order, a leaf's End right after its Start, the root's Start first and
\* its End last, and Start/End balanced.
C5_IterIsDepthFirstWalk ==
    IterFinished =>
        /\ \A n \in DOMAIN arena : \A k \in {"Start", "End"} :
              Cardinality(Positions(calls, k, n)) = IF Reachable(n) THEN 1 ELSE 0
        /\ \A n \in DOMAIN arena : Reachable(n) =>
              /\ Pos(calls, "Start", n) < Pos(calls, "End", n)
              /\ ChildSet(n) = {} =>
                    Pos(calls, "End", n) = Pos(calls, "Start", n) + 1
              /\ \A c \in ChildSet(n) :
                    /\ Pos(calls, "Start", n) < Pos(calls, "Start", c)
                    /\ Pos(calls, "End", c) < Pos(calls, "End", n)
              /\ \A c, d \in ChildSet(n) :
                    c < d => Pos(calls, "End", c) < Pos(calls, "Start", d)
        /\ calls[1] = [kind |-> "Start", elem |-> root]
        /\ calls[Len(calls)] = [kind |-> "End", elem |-> root]
        /\ Nested(calls, <<>>)

\* a finished walk of a tree with a node of two children and a grandchild
C5_Witness ==
    /\ IterFinished
    /\ \E n \in DOMAIN arena : Cardinality(ChildSet(n)) >= 2
    /\ \E n \in DOMAIN arena : n # root /\ Reachable(n) /\ ChildSet(n) # {}

\* calls holds handler calls: a render is running or was the last to run
RenderLog == target = "org" /\ (driver \in Handlers \/ ret.kind \in {"Ok", "Err"})

\* C6: the handler is called once per event of the walk, in order, with
\* start for Start and end for End; no call follows a call that returned an
\* error; the render returns that error; it returns Ok only after every
\* event was delivered and every call succeeded.
C6_RenderStopsAtFirstError ==
    RenderLog =>
        /\ Len(calls) <= Len(Walk(root))
        /\ \A i \in DOMAIN calls :
              /\ calls[i].elem = Walk(root)[i].node
              /\ calls[i].method =
                    (IF Walk(root)[i].kind = "Start" THEN "start" ELSE "end")
              /\ i < Len(calls) => calls[i].outcome = "ok"
        /\ driver \in Handlers =>
              /\ ret = Pending
              /\ \A i \in DOMAIN calls : calls[i].outcome = "ok"
        /\ ret.kind = "Err" =>
              /\ calls # <<>>
              /\ calls[Len(calls)].outcome = ret.error
              /\ ret.error \in HandlerErrors
        /\ ret.kind = "Ok" =>
              /\ Len(calls) = Len(Walk(root))
              /\ \A i \in DOMAIN calls : calls[i].outcome = "ok"

\* a render was ended by an error after some calls, before the last event
C6_Witness ==
    /\ RenderLog /\ ret.kind = "Err"
    /\ Len(calls) >= 3 /\ Len(calls) < Len(Walk(root))

\* what a finished traversal delivered, as edges
Delivered(cs) == [i \in DOMAIN cs |->
    IF "method" \in DOMAIN cs[i]
    THEN NodeEdge(IF cs[i].method = "start" THEN "Start" ELSE "End", cs[i].elem)
    ELSE NodeEdge(cs[i].kind, cs[i].elem)]

\* C7: a render or traversal, from its start to its return, leaves arena
\* and root as they are; each one starts on the Start of the root; and each
\* one that runs to its end has delivered the whole walk, also when an
\* earlier render on the same Org was ended by an error.
C7_RenderLeavesTreeRestartable ==
    [][target = "org" =>
        /\ (driver # "idle" \/ driver' # "idle") =>
              (arena' = arena /\ root' = root)
        /\ (driver = "idle" /\ driver' # "idle") =>
              (cursor' = Some(NodeEdge("Start", root)) /\ calls' = <<>>)
        /\ (ret # ret' /\ ret'.kind \in {"Ok", "IterDone"}) =>
              Delivered(calls') = Walk(root)
      ]_vars

\* a render ran to its end on an Org on which a render had failed
C7_Witness ==
    /\ target = "org" /\ failed /\ ret = RetOk
    /\ Len(calls) >= 4


====
